---- MODULE Spec2Model ----
(***************************************************************************)
(* Workspace store of the dashboard application (stores/Workspace.ts),     *)
(* its persisted document schema (specs/v1.ts) and the widget registry     *)
(* (widgets/WidgetRegistry.tsx).                                           *)
(*                                                                         *)
(* Optional values (`x?: T`, `T | null`, `T | undefined`) are modelled as  *)
(* sequences of length at most one: None is <<>>, Some(v) is <<v>>.        *)
(* A JS object used as a map (Record<string, RuntimeWidget>) is modelled   *)
(* as the sequence of its values in key-insertion order, which is the      *)
(* order Object.values enumerates non-numeric string keys.                 *)
(***************************************************************************)
EXTENDS Integers, Sequences, FiniteSets, TLC

VARIABLES
    hasHydrated,   \* WorkspaceStore.hasHydrated
    dashboardId,   \* WorkspaceStore.dashboardId   (None = null)
    designMode,    \* WorkspaceStore.designMode
    dashboards,    \* WorkspaceStore.dashboards    [auto, teleop, custom]
    slots,         \* WorkspaceStore.slots         (None = null)
    hydration,     \* position of the persist middleware: pending / done / failed
    nextId,        \* number of identifiers uuidv4 has produced so far, plus one
    ret,           \* outcome of the last call: what it returned or threw
    steps          \* number of calls made so far

storeVars == <<hasHydrated, dashboardId, designMode, dashboards, slots>>
vars == <<hasHydrated, dashboardId, designMode, dashboards, slots, hydration, nextId, ret, steps>>

\* Longest sequence of calls explored.
MaxSteps == 3

None == <<>>
Some(v) == <<v>>
IsSome(o) == o # <<>>
Get(o) == o[1]

Range(s) == {s[i] : i \in 1..Len(s)}

(***************************************************************************)
(* specs/v1.ts                                                             *)
(***************************************************************************)
VERSION == 1

WidgetTypeValues ==
    {"toggle", "chooser", "slider", "gyro", "power.pdp", "power.pdh", "field2d",
     "robot3d", "chart.line", "color", "value", "camera", "2025.reef.coral",
     "2025.reef.algae"}

\* The schemas are modelled by the issues safeParse reports: the set of
\* schema paths (array indices left out) at which the value is rejected.

\* z.object({left, top, width, height}) of numbers
WidgetLayoutIssues(l) ==
    IF l.left \in Int /\ l.top \in Int /\ l.width \in Int /\ l.height \in Int
    THEN {} ELSE {"widgets.layout"}

\* z.object({min: nonnegative?, max: positive?, fixed: boolean?})
WidgetBoundsValid(b) ==
    /\ (IsSome(b.min) => Get(b.min) >= 0)
    /\ (IsSome(b.max) => Get(b.max) > 0)

\* z.object({width: WidgetBounds?, height: WidgetBounds?})
WidgetLayoutConstraintsIssues(c) ==
    IF /\ (IsSome(c.width) => WidgetBoundsValid(Get(c.width)))
       /\ (IsSome(c.height) => WidgetBoundsValid(Get(c.height)))
    THEN {} ELSE {"widgets.constraints"}

\* WidgetRecord: type in the enum, lookback nonnegative, props unknown
WidgetRecordIssues(w) ==
    (IF w.type \in WidgetTypeValues THEN {} ELSE {"widgets.type"})
    \cup WidgetLayoutIssues(w.layout)
    \cup (IF IsSome(w.constraints) THEN WidgetLayoutConstraintsIssues(Get(w.constraints)) ELSE {})
    \cup (IF IsSome(w.lookback) /\ Get(w.lookback) < 0 THEN {"widgets.lookback"} ELSE {})

\* DashboardRecord: viewport.scale positive
DashboardRecordIssues(d) ==
    UNION {WidgetRecordIssues(d.widgets[i]) : i \in 1..Len(d.widgets)}
    \cup (IF IsSome(d.viewport) /\ Get(d.viewport).scale <= 0 THEN {"viewport.scale"} ELSE {})

\* Variant of WorkspaceDocumentIssues: the version literal is not checked
WorkspaceDocumentIssuesAnyVersion(doc) ==
    IF IsSome(doc.dashboards)
    THEN LET ds == Get(doc.dashboards) IN
         (IF IsSome(ds.auto) THEN DashboardRecordIssues(Get(ds.auto)) ELSE {})
         \cup (IF IsSome(ds.teleop) THEN DashboardRecordIssues(Get(ds.teleop)) ELSE {})
         \cup (IF IsSome(ds.custom)
               THEN UNION {DashboardRecordIssues(Get(ds.custom)[i]) :
                             i \in 1..Len(Get(ds.custom))}
               ELSE {})
    ELSE {}

\* WorkspaceDocument: version is the literal VERSION
WorkspaceDocumentIssues(doc) ==
    (IF doc.version = Some(VERSION) THEN {} ELSE {"version"})
    \cup (IF IsSome(doc.dashboards)
          THEN LET ds == Get(doc.dashboards) IN
               (IF IsSome(ds.auto) THEN DashboardRecordIssues(Get(ds.auto)) ELSE {})
               \cup (IF IsSome(ds.teleop) THEN DashboardRecordIssues(Get(ds.teleop)) ELSE {})
               \cup (IF IsSome(ds.custom)
                     THEN UNION {DashboardRecordIssues(Get(ds.custom)[i]) :
                                   i \in 1..Len(Get(ds.custom))}
                     ELSE {})
          ELSE {})

\* WorkspaceDocumentSchema.safeParse(document): success flag, parsed data
\* and the issues of the ZodError.  The documents of the model carry no
\* keys outside the schema, so the parsed data of a valid document is the
\* document.
safeParse(doc) ==
    LET issues == WorkspaceDocumentIssues(doc) IN
    [success |-> issues = {}, data |-> doc, error |-> issues]

(***************************************************************************)
(* widgets/WidgetRegistry.tsx and the descriptors                          *)
(***************************************************************************)
Bounds(min) == [min |-> Some(min), max |-> None, fixed |-> None]
Constraints(w, h) == [width |-> Some(Bounds(w)), height |-> Some(Bounds(h))]

\* Props values.  Every props schema of the registry is a z.object, which
\* strips unknown keys and rejects non-objects:
\*   "default"      the descriptor's defaultValue
\*   "custom"       another value the schema accepts unchanged
\*   "customExtra"  "custom" plus a key the schema does not know
\*   "empty"        {}
\*   "invalid"      a value the schema rejects (not an object)
WidgetColorDescriptor ==
    [type |-> "color", constraints |-> Some(Constraints(4, 4)),
     slot |-> Some([lookback |-> None, defaultChannel |-> None]),
     props |-> Some([defaultValue |-> "default"])]

WidgetFMSDescriptor ==
    [type |-> "fms", constraints |-> Some(Constraints(9, 7)),
     slot |-> Some([lookback |-> None, defaultChannel |-> Some("nt:/FMSInfo/*")]),
     props |-> Some([defaultValue |-> "empty"])]

\* The registry, restricted to two of its descriptors: one whose type is in
\* WidgetTypeValues and one whose type is not.
WidgetRegistry(type) ==
    IF type = "color" THEN Some(WidgetColorDescriptor)
    ELSE IF type = "fms" THEN Some(WidgetFMSDescriptor)
    ELSE None

\* descriptor.props.schema.safeParse(value)
\*   color: z.object({title?, boolean: {true, false}}): {} lacks `boolean`
\*   fms:   z.object({}): every object parses to {}
propsSafeParse(type, value) ==
    IF ~IsSome(value) \/ Get(value) = "invalid"
    THEN [success |-> FALSE, data |-> None]
    ELSE IF type = "fms"
    THEN [success |-> TRUE, data |-> Some("empty")]
    ELSE IF Get(value) = "empty"
    THEN [success |-> FALSE, data |-> None]
    ELSE IF Get(value) = "customExtra"
    THEN [success |-> TRUE, data |-> Some("custom")]
    ELSE [success |-> TRUE, data |-> value]

(***************************************************************************)
(* stores/Workspace.ts: pure helpers                                       *)
(***************************************************************************)
defaultState ==
    [hasHydrated |-> FALSE,
     dashboardId |-> None,
     designMode |-> FALSE,
     dashboards |->
        [auto |-> [id |-> "auto", name |-> "Auto", type |-> "auto",
                   viewport |-> None, widgets |-> <<>>],
         teleop |-> [id |-> "teleop", name |-> "Teleop", type |-> "teleop",
                     viewport |-> None, widgets |-> <<>>],
         custom |-> <<>>],
     slots |-> None]

dashboardName(index) == "Dashboard " \o ToString(index + 1)

\* [auto, teleop, ...custom]
AllDashboards(ds) == <<ds.auto, ds.teleop>> \o ds.custom

\* Array.prototype.findIndex(_ => _.id === id), 0-based, -1 when absent
findIndex(array, id) ==
    IF \E i \in 1..Len(array) : array[i].id = id
    THEN (CHOOSE i \in 1..Len(array) :
            /\ array[i].id = id
            /\ \A j \in 1..(i - 1) : array[j].id # id) - 1
    ELSE -1

\* Variant of getDashboard: the custom list is scanned before auto and
\* teleop are tried
getDashboardCustomFirst(ds, current, id) ==
    LET did == IF IsSome(id) THEN id ELSE current IN
    IF IsSome(did) /\ findIndex(ds.custom, Get(did)) >= 0
    THEN [kind |-> "custom", index |-> findIndex(ds.custom, Get(did)) + 1]
    ELSE IF Some(ds.auto.id) = did THEN [kind |-> "auto", index |-> 0]
    ELSE IF Some(ds.teleop.id) = did THEN [kind |-> "teleop", index |-> 0]
    ELSE [kind |-> "none", index |-> 0]

\* Variant of getDashboard: the selected dashboard takes precedence over
\* the id passed
getDashboardSelectedFirst(ds, current, id) ==
    LET did == IF IsSome(current) THEN current ELSE id IN
    IF Some(ds.auto.id) = did THEN [kind |-> "auto", index |-> 0]
    ELSE IF Some(ds.teleop.id) = did THEN [kind |-> "teleop", index |-> 0]
    ELSE IF IsSome(did) /\ findIndex(ds.custom, Get(did)) >= 0
    THEN [kind |-> "custom", index |-> findIndex(ds.custom, Get(did)) + 1]
    ELSE [kind |-> "none", index |-> 0]

\* The dashboard getDashboard returns, as a place in state.dashboards:
\* kind "none" stands for undefined.
getDashboard(ds, current, id) ==
    LET did == IF IsSome(id) THEN id ELSE current IN
    IF Some(ds.auto.id) = did THEN [kind |-> "auto", index |-> 0]
    ELSE IF Some(ds.teleop.id) = did THEN [kind |-> "teleop", index |-> 0]
    ELSE IF IsSome(did) /\ findIndex(ds.custom, Get(did)) >= 0
    THEN [kind |-> "custom", index |-> findIndex(ds.custom, Get(did)) + 1]
    ELSE [kind |-> "none", index |-> 0]

DashboardAt(ds, loc) ==
    IF loc.kind = "auto" THEN ds.auto
    ELSE IF loc.kind = "teleop" THEN ds.teleop
    ELSE ds.custom[loc.index]

WithDashboard(ds, loc, d) ==
    IF loc.kind = "auto" THEN [ds EXCEPT !.auto = d]
    ELSE IF loc.kind = "teleop" THEN [ds EXCEPT !.teleop = d]
    ELSE [ds EXCEPT !.custom[loc.index] = d]

\* Position of key `id` in a widget map, 0 when the key is absent
WidgetIndex(widgets, id) == findIndex(widgets, id) + 1

\* Variant of PutWidget: the widgets are kept in a list and w is pushed
PutWidgetAppend(widgets, w) == Append(widgets, w)

\* widgets[w.id] = w: an existing key keeps its position
PutWidget(widgets, w) ==
    IF WidgetIndex(widgets, w.id) > 0
    THEN [widgets EXCEPT ![WidgetIndex(widgets, w.id)] = w]
    ELSE Append(widgets, w)

\* delete widgets[id]
DeleteWidget(widgets, id) ==
    LET k == WidgetIndex(widgets, id) IN
    IF k = 0 THEN widgets
    ELSE SubSeq(widgets, 1, k - 1) \o SubSeq(widgets, k + 1, Len(widgets))

\* Adds to a duplicate-free sequence, as Set.add followed by Array.from
RECURSIVE AddAll(_, _)
AddAll(acc, items) ==
    IF items = <<>> THEN acc
    ELSE AddAll(IF Head(items) \in Range(acc) THEN acc ELSE Append(acc, Head(items)),
                Tail(items))

\* Slot values of one dashboard's widgets, in order, unset slots skipped.
\* `if (widget.slot)` also skips the empty string.
RECURSIVE WidgetSlots(_)
WidgetSlots(widgets) ==
    IF widgets = <<>> THEN <<>>
    ELSE (IF IsSome(Head(widgets).slot) /\ Get(Head(widgets).slot) # ""
          THEN <<Get(Head(widgets).slot)>> ELSE <<>>) \o WidgetSlots(Tail(widgets))

RECURSIVE SlotsOf(_)
SlotsOf(dashboardSeq) ==
    IF dashboardSeq = <<>> THEN <<>>
    ELSE WidgetSlots(Head(dashboardSeq).widgets) \o SlotsOf(Tail(dashboardSeq))

\* Variant of getSlots: an array is filled instead of a Set
getSlotsKeepDuplicates(ds) == SlotsOf(AllDashboards(ds))

getSlots(ds) == AddAll(<<>>, SlotsOf(AllDashboards(ds)))

\* Variant of parseWidgetProps: a rejected value is kept
parseWidgetPropsKeepRejected(value, descriptor) ==
    IF IsSome(descriptor.props)
    THEN LET result == propsSafeParse(descriptor.type, value) IN
         IF result.success THEN result.data ELSE value
    ELSE Some("empty")

parseWidgetProps(value, descriptor) ==
    IF IsSome(descriptor.props)
    THEN LET result == propsSafeParse(descriptor.type, value) IN
         IF result.success THEN result.data
         ELSE Some(Get(descriptor.props).defaultValue)
    ELSE Some("empty")

persistWidget(widget) ==
    [id |-> widget.id, type |-> widget.type, layout |-> widget.layout,
     constraints |-> widget.constraints, slot |-> widget.slot,
     lookback |-> widget.lookback, props |-> widget.props]

RECURSIVE persistWidgets(_)
persistWidgets(widgets) ==
    IF widgets = <<>> THEN <<>>
    ELSE <<persistWidget(Head(widgets))>> \o persistWidgets(Tail(widgets))

persistDashboard(dashboard) ==
    [id |-> dashboard.id, viewport |-> dashboard.viewport,
     widgets |-> persistWidgets(dashboard.widgets)]

\* The reduce of parseDashboard: records of unknown type are skipped, a
\* record whose id is already a key replaces the value under that key.
RECURSIVE parseWidgets(_, _)
parseWidgets(acc, records) ==
    IF records = <<>> THEN acc
    ELSE LET widget == Head(records)
             descriptor == WidgetRegistry(widget.type)
         IN parseWidgets(
              IF ~IsSome(descriptor) THEN acc
              ELSE PutWidget(acc,
                     [id |-> widget.id, type |-> widget.type, layout |-> widget.layout,
                      constraints |-> widget.constraints, slot |-> widget.slot,
                      lookback |-> widget.lookback,
                      props |-> parseWidgetProps(widget.props, Get(descriptor)),
                      descriptor |-> Get(descriptor).type]),
              Tail(records))

\* Variant of parseDashboard: the id of the record is kept for every type
parseDashboardKeepId(dashboard, type, index) ==
    IF IsSome(dashboard)
    THEN [id |-> Get(dashboard).id,
          name |-> IF type = "auto" THEN "Auto"
                   ELSE IF type = "teleop" THEN "Teleop"
                   ELSE dashboardName(IF IsSome(index) THEN Get(index) ELSE -1),
          type |-> type,
          viewport |-> Get(dashboard).viewport,
          widgets |-> parseWidgets(<<>>, Get(dashboard).widgets)]
    ELSE [id |-> IF type = "auto" THEN "auto"
                 ELSE IF type = "teleop" THEN "teleop" ELSE "",
          name |-> IF type = "auto" THEN "Auto"
                   ELSE IF type = "teleop" THEN "Teleop" ELSE "Dashboard",
          type |-> type,
          viewport |-> None,
          widgets |-> <<>>]

\* parseDashboard(dashboard, type, index); index is None when not passed
parseDashboard(dashboard, type, index) ==
    IF IsSome(dashboard)
    THEN [id |-> IF type = "auto" THEN "auto"
                 ELSE IF type = "teleop" THEN "teleop" ELSE Get(dashboard).id,
          name |-> IF type = "auto" THEN "Auto"
                   ELSE IF type = "teleop" THEN "Teleop"
                   ELSE dashboardName(IF IsSome(index) THEN Get(index) ELSE -1),
          type |-> type,
          viewport |-> Get(dashboard).viewport,
          widgets |-> parseWidgets(<<>>, Get(dashboard).widgets)]
    ELSE [id |-> IF type = "auto" THEN "auto"
                 ELSE IF type = "teleop" THEN "teleop" ELSE "",
          name |-> IF type = "auto" THEN "Auto"
                   ELSE IF type = "teleop" THEN "Teleop" ELSE "Dashboard",
          type |-> type,
          viewport |-> None,
          widgets |-> <<>>]

RECURSIVE persistCustom(_)
persistCustom(custom) ==
    IF custom = <<>> THEN <<>>
    ELSE <<persistDashboard(Head(custom))>> \o persistCustom(Tail(custom))

persistState(state) ==
    [version |-> Some(VERSION),
     dashboardId |-> state.dashboardId,
     dashboards |-> Some(
        [auto |-> Some(persistDashboard(state.dashboards.auto)),
         teleop |-> Some(persistDashboard(state.dashboards.teleop)),
         custom |-> Some(persistCustom(state.dashboards.custom))])]

\* An absent persisted state: every optional chain of mergeState yields
\* undefined on it.
NoDocument == [version |-> None, dashboardId |-> None, dashboards |-> None]

mergeState(record, state) ==
    LET ds == record.dashboards
        newDashboards ==
          [auto |-> parseDashboard(IF IsSome(ds) THEN Get(ds).auto ELSE None, "auto", None),
           teleop |-> parseDashboard(IF IsSome(ds) THEN Get(ds).teleop ELSE None, "teleop", None),
           custom |-> IF IsSome(ds) /\ IsSome(Get(ds).custom)
                      THEN [i \in 1..Len(Get(Get(ds).custom)) |->
                              parseDashboard(Some(Get(Get(ds).custom)[i]), "custom", Some(i - 1))]
                      ELSE <<>>]
    IN [hasHydrated |-> state.hasHydrated,
        dashboardId |-> IF IsSome(record.dashboardId) THEN record.dashboardId ELSE Some("teleop"),
        designMode |-> state.designMode,
        dashboards |-> newDashboards,
        slots |-> IF state.designMode THEN None ELSE Some(getSlots(newDashboards))]

\* useWorkspaceStore.getState(), the data part
State ==
    [hasHydrated |-> hasHydrated, dashboardId |-> dashboardId, designMode |-> designMode,
     dashboards |-> dashboards, slots |-> slots]

getWorkspaceDocument == persistState(State)

(***************************************************************************)
(* Inputs: documents, layouts and field values the operations are called   *)
(* with                                                                    *)
(***************************************************************************)
L1 == [left |-> 0, top |-> 0, width |-> 6, height |-> 6]
L2 == [left |-> 2, top |-> 3, width |-> 8, height |-> 4]

W(id, type, slot, lookback, props) ==
    [id |-> id, type |-> type, layout |-> L1,
     constraints |-> IF IsSome(WidgetRegistry(type))
                     THEN Get(WidgetRegistry(type)).constraints ELSE None,
     slot |-> slot, lookback |-> lookback, props |-> props]

D(id, viewport, widgets) == [id |-> id, viewport |-> viewport, widgets |-> widgets]

\* Widgets bound to A, A and B, one unbound widget with props its schema
\* rejects, one widget of a type without descriptor, one viewport.
DocWidgets ==
    [version |-> Some(1),
     dashboardId |-> Some("c1"),
     dashboards |-> Some(
       [auto |-> Some(D("auto", Some([x |-> 1, y |-> 2, scale |-> 2]),
                   <<W("w1", "color", Some("nt:/A"), Some(5), Some("custom")),
                     W("w2", "robot3d", Some("nt:/C"), None, None),
                     W("w3", "color", None, None, Some("invalid"))>>)),
        teleop |-> Some(D("teleop", None,
                   <<W("w4", "color", Some("nt:/A"), Some(0), Some("customExtra"))>>)),
        custom |-> Some(<<D("c1", None, <<W("w5", "color", Some("nt:/B"), None, Some("default"))>>)>>)])]

\* Three custom dashboards, no auto and no teleop record
DocThree ==
    [version |-> Some(1),
     dashboardId |-> Some("c2"),
     dashboards |-> Some(
       [auto |-> None,
        teleop |-> None,
        custom |-> Some(<<D("c1", None, <<>>), D("c2", None, <<>>), D("c3", None, <<>>)>>)])]

\* Records that repeat an id: two widgets "w1" in one dashboard, two custom
\* dashboards "c1", a custom dashboard called "auto", an auto record with
\* another id; no teleop record and no dashboardId.
DocDup ==
    [version |-> Some(1),
     dashboardId |-> None,
     dashboards |-> Some(
       [auto |-> Some(D("zzz", None,
                   <<W("w1", "color", Some("nt:/A"), None, Some("default")),
                     W("w1", "color", Some("nt:/B"), None, Some("custom"))>>)),
        teleop |-> None,
        custom |-> Some(<<D("auto", None, <<>>),
                          D("c1", None, <<>>),
                          D("c1", None, <<W("w1", "color", None, None, None)>>)>>)])]

\* {version: 1}
DocEmpty == [version |-> Some(1), dashboardId |-> None, dashboards |-> None]

\* DocWidgets under another version
DocBadVersion == [DocWidgets EXCEPT !.version = Some(2)]

\* A widget whose type is registered but is not in WidgetTypeValues
DocBadType ==
    [version |-> Some(1),
     dashboardId |-> Some("auto"),
     dashboards |-> Some(
       [auto |-> Some(D("auto", None, <<W("w1", "fms", None, None, Some("empty"))>>)),
        teleop |-> None,
        custom |-> None])]

\* A widget of a type that is neither in WidgetTypeValues nor registered,
\* next to a widget of a known type
DocObsolete ==
    [version |-> Some(1),
     dashboardId |-> None,
     dashboards |-> Some(
       [auto |-> Some(D("auto", None,
                   <<W("w1", "obsolete", None, None, None),
                     W("w2", "color", None, None, Some("default"))>>)),
        teleop |-> None,
        custom |-> None])]

\* {version: 1, dashboardId: "gone"}: the selected id names no dashboard
DocDangling == [version |-> Some(1), dashboardId |-> Some("gone"), dashboards |-> None]

ImportDocs ==
    {DocWidgets, DocThree, DocDup, DocEmpty, DocDangling, DocBadVersion, DocBadType,
     DocObsolete}

\* What the storage holds at start: nothing, a document written under the
\* current version, a document written under an older version.
StoredValues ==
    {None,
     Some([version |-> VERSION, state |-> DocWidgets]),
     Some([version |-> 0, state |-> DocDup])}

LayoutInputs == {L2}
PropsInputs == {Some("invalid")}
LookbackInputs == {-1}
SlotInputs == {None, Some("nt:/B")}
ViewportInputs == {[x |-> 3, y |-> 4, scale |-> 1], [x |-> 0, y |-> 0, scale |-> 0]}
DescriptorInputs == {WidgetColorDescriptor, WidgetFMSDescriptor}

CustomIds == {dashboards.custom[i].id : i \in 1..Len(dashboards.custom)}
DashboardIdInputs == {"auto", "teleop", "nope"} \cup CustomIds
OptDashboardIdInputs == {None, Some("auto"), Some("nope")}
MoveIdInputs == {"auto", "nope"} \cup CustomIds
WidgetIdInputs ==
    {"nowidget"} \cup
    UNION {{d.widgets[i].id : i \in 1..Len(d.widgets)} : d \in Range(AllDashboards(dashboards))}
IndexInputs == -1..Len(dashboards.custom)

uuidv4 == "u" \o ToString(nextId)

(***************************************************************************)
(* The store                                                               *)
(***************************************************************************)
\* What a call returns or throws
Returned(kind, issues) == [kind |-> kind, issues |-> issues]
Undefined == Returned("undefined", {})
TypeError == Returned("TypeError", {})
ZodError(issues) == Returned("ZodError", issues)

Init ==
    /\ hasHydrated = defaultState.hasHydrated
    /\ dashboardId = defaultState.dashboardId
    /\ designMode = defaultState.designMode
    /\ dashboards = defaultState.dashboards
    /\ slots = defaultState.slots
    /\ hydration = "pending"
    /\ nextId = 1
    /\ ret = Returned("none", {})
    /\ steps = 0

\* Every call is one step; `returned` is what the call returns or throws.
Call(returned) ==
    /\ steps < MaxSteps
    /\ steps' = steps + 1
    /\ ret' = returned

SetState(state) ==
    /\ hasHydrated' = state.hasHydrated
    /\ dashboardId' = state.dashboardId
    /\ designMode' = state.designMode
    /\ dashboards' = state.dashboards
    /\ slots' = state.slots

\* Variant of Import: a successful import ends design mode
ImportLeavesDesignMode(document) ==
    LET result == safeParse(document) IN
    IF result.success
    THEN /\ Call(Undefined)
         /\ SetState([mergeState(result.data, State) EXCEPT !.designMode = FALSE])
         /\ UNCHANGED <<hydration, nextId>>
    ELSE /\ Call(ZodError(result.error))
         /\ UNCHANGED <<storeVars, hydration, nextId>>

\* Variant of Import: the document is merged into the default state
ImportFromDefault(document) ==
    LET result == safeParse(document) IN
    IF result.success
    THEN /\ Call(Undefined)
         /\ SetState(mergeState(result.data, defaultState))
         /\ UNCHANGED <<hydration, nextId>>
    ELSE /\ Call(ZodError(result.error))
         /\ UNCHANGED <<storeVars, hydration, nextId>>

\* Variant of Import: the custom dashboards of the document are added to
\* those of the store
ImportAppendCustom(document) ==
    LET result == safeParse(document)
        merged == mergeState(result.data, State)
    IN IF result.success
       THEN /\ Call(Undefined)
            /\ SetState([merged EXCEPT !.dashboards.custom = dashboards.custom \o @])
            /\ UNCHANGED <<hydration, nextId>>
       ELSE /\ Call(ZodError(result.error))
            /\ UNCHANGED <<storeVars, hydration, nextId>>

\* Variant of Import: the document is merged before the result is looked at
ImportMergeFirst(document) ==
    LET result == safeParse(document) IN
    /\ Call(IF result.success THEN Undefined ELSE ZodError(result.error))
    /\ SetState(mergeState(result.data, State))
    /\ UNCHANGED <<hydration, nextId>>

Import(document) ==
    LET result == safeParse(document) IN
    IF result.success
    THEN /\ Call(Undefined)
         /\ SetState(mergeState(result.data, State))
         /\ UNCHANGED <<hydration, nextId>>
    ELSE /\ Call(ZodError(result.error))
         /\ UNCHANGED <<storeVars, hydration, nextId>>

\* Variant of AddDashboard: the new dashboard is not selected
AddDashboardKeepSelection ==
    LET id == uuidv4 IN
    /\ Call(Undefined)
    /\ dashboards' = [dashboards EXCEPT !.custom =
          Append(@, [id |-> id, name |-> dashboardName(Len(dashboards.custom)),
                     type |-> "custom", viewport |-> None, widgets |-> <<>>])]
    /\ nextId' = nextId + 1
    /\ UNCHANGED <<hasHydrated, dashboardId, designMode, slots, hydration>>

AddDashboard ==
    LET id == uuidv4 IN
    /\ Call(Undefined)
    /\ dashboards' = [dashboards EXCEPT !.custom =
          Append(@, [id |-> id, name |-> dashboardName(Len(dashboards.custom)),
                     type |-> "custom", viewport |-> None, widgets |-> <<>>])]
    /\ dashboardId' = Some(id)
    /\ nextId' = nextId + 1
    /\ UNCHANGED <<hasHydrated, designMode, slots, hydration>>

\* Array.prototype.splice: the start index clamped to 0..len
spliceStart(len, start) ==
    IF start < 0 THEN (IF len + start < 0 THEN 0 ELSE len + start)
    ELSE IF start > len THEN len ELSE start

\* Variant of arrayMove: the elements at `from` and `to` change places
arraySwap(array, from, to) ==
    [i \in 1..Len(array) |->
       Some(IF i = from + 1 /\ to >= 0 THEN array[to + 1]
            ELSE IF i = to + 1 /\ from >= 0 THEN array[from + 1]
            ELSE array[i])]

\* arrayMove of @dnd-kit/sortable:
\*   newArray.splice(to < 0 ? newArray.length + to : to, 0, newArray.splice(from, 1)[0])
\* The elements of the result are options: removing from an empty array
\* yields undefined, which is then inserted.
arrayMove(array, from, to) ==
    LET n == Len(array)
        target == IF to < 0 THEN n + to ELSE to
        rs == spliceStart(n, from)
        removed == IF rs < n THEN Some(array[rs + 1]) ELSE None
        rest == IF rs < n THEN SubSeq(array, 1, rs) \o SubSeq(array, rs + 2, n) ELSE array
        is == spliceStart(Len(rest), target)
        opt == [i \in 1..Len(rest) |-> Some(rest[i])]
    IN SubSeq(opt, 1, is) \o <<removed>> \o SubSeq(opt, is + 1, Len(opt))

MoveDashboard(id, targetId) ==
    LET oldIndex == findIndex(dashboards.custom, id)
        newIndex == findIndex(dashboards.custom, targetId)
        moved == arrayMove(dashboards.custom, oldIndex, newIndex)
    IN IF \E i \in 1..Len(moved) : ~IsSome(moved[i])
       THEN \* custom[i]!.name = ... on undefined: the producer throws and
            \* the draft is discarded
            /\ Call(TypeError)
            /\ UNCHANGED <<storeVars, hydration, nextId>>
       ELSE /\ Call(Undefined)
            /\ dashboards' = [dashboards EXCEPT !.custom =
                  [i \in 1..Len(moved) |-> [Get(moved[i]) EXCEPT !.name = dashboardName(i - 1)]]]
            /\ UNCHANGED <<hasHydrated, dashboardId, designMode, slots, hydration, nextId>>

\* Variant of RemoveDashboard: teleop is selected only when the selected
\* dashboard is the one removed
RemoveDashboardKeepSelection(id) ==
    LET index == findIndex(dashboards.custom, id)
        n == Len(dashboards.custom)
        spliced == SubSeq(dashboards.custom, 1, index) \o SubSeq(dashboards.custom, index + 2, n)
    IN /\ Call(Undefined)
       /\ dashboards' =
            IF index >= 0
            THEN [dashboards EXCEPT !.custom =
                    [i \in 1..Len(spliced) |->
                       IF i - 1 >= index
                       THEN [spliced[i] EXCEPT !.name = dashboardName(i - 1)]
                       ELSE spliced[i]]]
            ELSE dashboards
       /\ dashboardId' = IF dashboardId = Some(id) THEN Some("teleop") ELSE dashboardId
       /\ UNCHANGED <<hasHydrated, designMode, slots, hydration, nextId>>

\* Variant of RemoveDashboard: the names are not adjusted
RemoveDashboardKeepNames(id) ==
    LET index == findIndex(dashboards.custom, id)
        n == Len(dashboards.custom)
    IN /\ Call(Undefined)
       /\ dashboards' =
            IF index >= 0
            THEN [dashboards EXCEPT !.custom =
                    SubSeq(dashboards.custom, 1, index) \o SubSeq(dashboards.custom, index + 2, n)]
            ELSE dashboards
       /\ dashboardId' = Some("teleop")
       /\ UNCHANGED <<hasHydrated, designMode, slots, hydration, nextId>>

RemoveDashboard(id) ==
    LET index == findIndex(dashboards.custom, id)
        n == Len(dashboards.custom)
        spliced == SubSeq(dashboards.custom, 1, index) \o SubSeq(dashboards.custom, index + 2, n)
    IN /\ Call(Undefined)
       /\ dashboards' =
            IF index >= 0
            THEN [dashboards EXCEPT !.custom =
                    [i \in 1..Len(spliced) |->
                       IF i - 1 >= index
                       THEN [spliced[i] EXCEPT !.name = dashboardName(i - 1)]
                       ELSE spliced[i]]]
            ELSE dashboards
       /\ dashboardId' = Some("teleop")
       /\ UNCHANGED <<hasHydrated, designMode, slots, hydration, nextId>>

\* Variant of SelectDashboard: the id is selected without being resolved
SelectDashboardUnresolved(id) ==
    /\ Call(Undefined)
    /\ dashboardId' = Some(id)
    /\ UNCHANGED <<hasHydrated, designMode, dashboards, slots, hydration, nextId>>

SelectDashboard(id) ==
    LET dashboard == getDashboard(dashboards, dashboardId, Some(id)) IN
    /\ Call(Undefined)
    /\ dashboardId' = IF dashboard.kind # "none"
                      THEN Some(DashboardAt(dashboards, dashboard).id)
                      ELSE dashboardId
    /\ UNCHANGED <<hasHydrated, designMode, dashboards, slots, hydration, nextId>>

SelectDashboardByKey(index) ==
    /\ Call(Undefined)
    /\ dashboardId' = IF index >= 0 /\ index < Len(dashboards.custom)
                      THEN Some(dashboards.custom[index + 1].id)
                      ELSE dashboardId
    /\ UNCHANGED <<hasHydrated, designMode, dashboards, slots, hydration, nextId>>

EnterDesignMode ==
    /\ Call(Undefined)
    /\ designMode' = TRUE
    /\ UNCHANGED <<hasHydrated, dashboardId, dashboards, slots, hydration, nextId>>

ExitDesignMode ==
    /\ Call(Undefined)
    /\ designMode' = FALSE
    /\ UNCHANGED <<hasHydrated, dashboardId, dashboards, slots, hydration, nextId>>

\* Variant of ToggleDesignMode: only the flag is negated
ToggleDesignModeKeepSlots ==
    /\ Call(Undefined)
    /\ designMode' = ~designMode
    /\ UNCHANGED <<hasHydrated, dashboardId, dashboards, slots, hydration, nextId>>

ToggleDesignMode ==
    /\ Call(Undefined)
    /\ designMode' = ~designMode
    /\ slots' = IF designMode' THEN None ELSE Some(getSlots(dashboards))
    /\ UNCHANGED <<hasHydrated, dashboardId, dashboards, hydration, nextId>>

\* Variant of AddWidget: the descriptor's default channel is not bound
AddWidgetWithoutSlot(descriptor, layout, did) ==
    LET dashboard == getDashboard(dashboards, dashboardId, did)
        id == uuidv4
        widget ==
          [id |-> id, type |-> descriptor.type, layout |-> layout,
           constraints |-> descriptor.constraints,
           lookback |-> IF IsSome(descriptor.slot) THEN Get(descriptor.slot).lookback ELSE None,
           props |-> IF IsSome(descriptor.props)
                     THEN Some(Get(descriptor.props).defaultValue) ELSE None,
           descriptor |-> descriptor.type,
           slot |-> None]
    IN /\ Call(Undefined)
       /\ IF dashboard.kind # "none"
          THEN /\ dashboards' = WithDashboard(dashboards, dashboard,
                     [DashboardAt(dashboards, dashboard) EXCEPT !.widgets = PutWidget(@, widget)])
               /\ nextId' = nextId + 1
          ELSE UNCHANGED <<dashboards, nextId>>
       /\ UNCHANGED <<hasHydrated, dashboardId, designMode, slots, hydration>>

AddWidget(descriptor, layout, did) ==
    LET dashboard == getDashboard(dashboards, dashboardId, did)
        id == uuidv4
        widget ==
          [id |-> id, type |-> descriptor.type, layout |-> layout,
           constraints |-> descriptor.constraints,
           lookback |-> IF IsSome(descriptor.slot) THEN Get(descriptor.slot).lookback ELSE None,
           props |-> IF IsSome(descriptor.props)
                     THEN Some(Get(descriptor.props).defaultValue) ELSE None,
           descriptor |-> descriptor.type,
           slot |-> IF IsSome(descriptor.slot) THEN Get(descriptor.slot).defaultChannel ELSE None]
    IN /\ Call(Undefined)
       /\ IF dashboard.kind # "none"
          THEN /\ dashboards' = WithDashboard(dashboards, dashboard,
                     [DashboardAt(dashboards, dashboard) EXCEPT !.widgets = PutWidget(@, widget)])
               /\ nextId' = nextId + 1
          ELSE UNCHANGED <<dashboards, nextId>>
       /\ UNCHANGED <<hasHydrated, dashboardId, designMode, slots, hydration>>

RemoveWidget(widgetId, did) ==
    LET dashboard == getDashboard(dashboards, dashboardId, did) IN
    /\ Call(Undefined)
    /\ dashboards' =
         IF dashboard.kind # "none"
         THEN WithDashboard(dashboards, dashboard,
                [DashboardAt(dashboards, dashboard) EXCEPT !.widgets = DeleteWidget(@, widgetId)])
         ELSE dashboards
    /\ UNCHANGED <<hasHydrated, dashboardId, designMode, slots, hydration, nextId>>

\* Variant of UpdateWidget: the widget is looked up in every dashboard
UpdateWidgetAnyDashboard(widgetId, did, field, value) ==
    LET all == AllDashboards(dashboards)
        holders == {i \in 1..Len(all) : WidgetIndex(all[i].widgets, widgetId) > 0}
        h == CHOOSE i \in holders : \A j \in holders : i <= j
        dashboard == IF h = 1 THEN [kind |-> "auto", index |-> 0]
                     ELSE IF h = 2 THEN [kind |-> "teleop", index |-> 0]
                     ELSE [kind |-> "custom", index |-> h - 2]
    IN /\ Call(Undefined)
       /\ dashboards' =
            IF holders # {}
            THEN WithDashboard(dashboards, dashboard,
                   [all[h] EXCEPT !.widgets[WidgetIndex(all[h].widgets, widgetId)][field] = value])
            ELSE dashboards
       /\ UNCHANGED <<hasHydrated, dashboardId, designMode, slots, hydration, nextId>>

\* getDashboard(draft, dashboardId)?.widgets[widgetId] followed by the
\* assignment of `value` to the field `field` of the widget found
UpdateWidget(widgetId, did, field, value) ==
    LET dashboard == getDashboard(dashboards, dashboardId, did)
        k == IF dashboard.kind # "none"
             THEN WidgetIndex(DashboardAt(dashboards, dashboard).widgets, widgetId)
             ELSE 0
    IN /\ Call(Undefined)
       /\ dashboards' =
            IF k > 0
            THEN WithDashboard(dashboards, dashboard,
                   [DashboardAt(dashboards, dashboard) EXCEPT !.widgets[k][field] = value])
            ELSE dashboards
       /\ UNCHANGED <<hasHydrated, dashboardId, designMode, slots, hydration, nextId>>

\* Variant of LayoutWidget: the widget's constraints are dropped with the
\* old layout
LayoutWidgetDropConstraints(widgetId, layout, did) ==
    LET dashboard == getDashboard(dashboards, dashboardId, did)
        k == IF dashboard.kind # "none"
             THEN WidgetIndex(DashboardAt(dashboards, dashboard).widgets, widgetId)
             ELSE 0
    IN /\ Call(Undefined)
       /\ dashboards' =
            IF k > 0
            THEN WithDashboard(dashboards, dashboard,
                   [DashboardAt(dashboards, dashboard) EXCEPT
                      !.widgets[k] = [@ EXCEPT !.layout = layout, !.constraints = None]])
            ELSE dashboards
       /\ UNCHANGED <<hasHydrated, dashboardId, designMode, slots, hydration, nextId>>

LayoutWidget(widgetId, layout, did) ==
    UpdateWidget(widgetId, did, "layout", layout)

UpdateWidgetProps(widgetId, props, did) ==
    UpdateWidget(widgetId, did, "props", props)

\* Variant of UpdateWidgetLookback: a negative lookback is not stored
UpdateWidgetLookbackValidated(widgetId, lookback, did) ==
    IF lookback >= 0
    THEN UpdateWidget(widgetId, did, "lookback", Some(lookback))
    ELSE /\ Call(Undefined)
         /\ UNCHANGED <<storeVars, hydration, nextId>>

UpdateWidgetLookback(widgetId, lookback, did) ==
    UpdateWidget(widgetId, did, "lookback", Some(lookback))

UpdateWidgetSlot(widgetId, channelId, did) ==
    UpdateWidget(widgetId, did, "slot", channelId)

\* Variant of UpdateViewport: a viewport is created when absent and an
\* existing one is left alone
UpdateViewportKeepExisting(x, y, scale, did) ==
    LET dashboard == getDashboard(dashboards, dashboardId, did) IN
    /\ Call(Undefined)
    /\ dashboards' =
         IF dashboard.kind # "none" /\ ~IsSome(DashboardAt(dashboards, dashboard).viewport)
         THEN WithDashboard(dashboards, dashboard,
                [DashboardAt(dashboards, dashboard) EXCEPT
                   !.viewport = Some([x |-> x, y |-> y, scale |-> scale])])
         ELSE dashboards
    /\ UNCHANGED <<hasHydrated, dashboardId, designMode, slots, hydration, nextId>>

UpdateViewport(x, y, scale, did) ==
    LET dashboard == getDashboard(dashboards, dashboardId, did) IN
    /\ Call(Undefined)
    /\ dashboards' =
         IF dashboard.kind # "none"
         THEN WithDashboard(dashboards, dashboard,
                [DashboardAt(dashboards, dashboard) EXCEPT
                   !.viewport = Some([x |-> x, y |-> y, scale |-> scale])])
         ELSE dashboards
    /\ UNCHANGED <<hasHydrated, dashboardId, designMode, slots, hydration, nextId>>

\* Variant of Hydrate: the stored state is merged whatever its version
HydrateAnyVersion(stored) ==
    LET migratedState == IF IsSome(stored) THEN Get(stored).state ELSE NoDocument
        merged == mergeState(migratedState, State)
    IN /\ hydration = "pending"
       /\ steps < MaxSteps
       /\ steps' = steps + 1
       /\ SetState([merged EXCEPT !.hasHydrated = TRUE])
       /\ hydration' = "done"
       /\ UNCHANGED <<nextId, ret>>

\* Variant of Hydrate: merge is not run when there is no state to merge
HydrateSkipEmpty(stored) ==
    LET usable == IsSome(stored) /\ Get(stored).version = VERSION
        merged == IF usable THEN mergeState(Get(stored).state, State) ELSE State
    IN /\ hydration = "pending"
       /\ steps < MaxSteps
       /\ steps' = steps + 1
       /\ SetState([merged EXCEPT !.hasHydrated = TRUE])
       /\ hydration' = "done"
       /\ UNCHANGED <<nextId, ret>>

\* The persist middleware finishes reading the storage: a stored value of
\* another version is not migrated (no `migrate` option) and counts as
\* absent; merge runs in both cases, then onRehydrateStorage's callback
\* calls markHydrated.
Hydrate(stored) ==
    LET migratedState == IF IsSome(stored) /\ Get(stored).version = VERSION
                         THEN Get(stored).state ELSE NoDocument
        merged == mergeState(migratedState, State)
    IN /\ hydration = "pending"
       /\ steps < MaxSteps
       /\ steps' = steps + 1
       /\ SetState([merged EXCEPT !.hasHydrated = TRUE])
       /\ hydration' = "done"
       /\ UNCHANGED <<nextId, ret>>

\* The storage cannot be read: the callback logs the error and does not
\* call markHydrated.
HydrateFail ==
    /\ hydration = "pending"
    /\ steps < MaxSteps
    /\ steps' = steps + 1
    /\ hydration' = "failed"
    /\ UNCHANGED <<storeVars, nextId, ret>>

Next ==
    \/ \E document \in ImportDocs : Import(document)
    \/ AddDashboard
    \/ \E id, targetId \in MoveIdInputs : MoveDashboard(id, targetId)
    \/ \E id \in DashboardIdInputs : RemoveDashboard(id)
    \/ \E index \in IndexInputs : SelectDashboardByKey(index)
    \/ \E id \in DashboardIdInputs : SelectDashboard(id)
    \/ EnterDesignMode
    \/ ExitDesignMode
    \/ ToggleDesignMode
    \/ \E descriptor \in DescriptorInputs, layout \in {L1}, did \in OptDashboardIdInputs :
          AddWidget(descriptor, layout, did)
    \/ \E widgetId \in WidgetIdInputs, did \in OptDashboardIdInputs :
          RemoveWidget(widgetId, did)
    \/ \E widgetId \in WidgetIdInputs, layout \in LayoutInputs, did \in OptDashboardIdInputs :
          LayoutWidget(widgetId, layout, did)
    \/ \E widgetId \in WidgetIdInputs, props \in PropsInputs, did \in OptDashboardIdInputs :
          UpdateWidgetProps(widgetId, props, did)
    \/ \E widgetId \in WidgetIdInputs, lookback \in LookbackInputs, did \in OptDashboardIdInputs :
          UpdateWidgetLookback(widgetId, lookback, did)
    \/ \E widgetId \in WidgetIdInputs, channelId \in SlotInputs, did \in OptDashboardIdInputs :
          UpdateWidgetSlot(widgetId, channelId, did)
    \/ \E viewport \in ViewportInputs, did \in OptDashboardIdInputs :
          UpdateViewport(viewport.x, viewport.y, viewport.scale, did)
    \/ \E stored \in StoredValues : Hydrate(stored)
    \/ HydrateFail

Spec == Init /\ [][Next]_vars

\* The persist middleware starts reading the storage when the store is
\* created and the read ends, with a value or with an error; calls of the
\* operations are made by the user and may stop at any time.
HydrationStep == (\E stored \in StoredValues : Hydrate(stored)) \/ HydrateFail

LiveSpec == Spec /\ WF_vars(HydrationStep)

TypeOK ==
    /\ hasHydrated \in BOOLEAN
    /\ designMode \in BOOLEAN
    /\ hydration \in {"pending", "done", "failed"}
    /\ ret.kind \in {"none", "undefined", "ZodError", "TypeError"}
    /\ steps \in 0..MaxSteps

(***************************************************************************)
(* Properties                                                              *)
(***************************************************************************)
\* What the contracts compare: a widget by id, type, layout, slot, lookback
\* and props; a dashboard by id, widget set and viewport.
WidgetView(w) ==
    [id |-> w.id, type |-> w.type, layout |-> w.layout, slot |-> w.slot,
     lookback |-> w.lookback, props |-> w.props]

DashboardView(d) ==
    [id |-> d.id, widgets |-> {WidgetView(d.widgets[i]) : i \in 1..Len(d.widgets)},
     viewport |-> d.viewport]

WorkspaceView(ds) ==
    [auto |-> DashboardView(ds.auto), teleop |-> DashboardView(ds.teleop),
     custom |-> [i \in 1..Len(ds.custom) |-> DashboardView(ds.custom[i])]]

WidgetIds(d) == {d.widgets[i].id : i \in 1..Len(d.widgets)}

\* The dashboard records of a document in the order [auto, teleop, ...custom]
DocDashboards(doc) ==
    IF IsSome(doc.dashboards)
    THEN LET ds == Get(doc.dashboards) IN
         <<ds.auto, ds.teleop>> \o
         (IF IsSome(ds.custom)
          THEN [i \in 1..Len(Get(ds.custom)) |-> Some(Get(ds.custom)[i])] ELSE <<>>)
    ELSE <<None, None>>

RecordsOf(doc) ==
    UNION {IF IsSome(DocDashboards(doc)[k]) THEN Range(Get(DocDashboards(doc)[k]).widgets) ELSE {} :
             k \in 1..Len(DocDashboards(doc))}

HasUnknownType(doc) == \E w \in RecordsOf(doc) : ~IsSome(WidgetRegistry(w.type))

\* The set of slot values bound by some widget of some dashboard
BoundSlots(ds) ==
    UNION {{Get(d.widgets[i].slot) : i \in {j \in 1..Len(d.widgets) : IsSome(d.widgets[j].slot)}} :
             d \in Range(AllDashboards(ds))}

\* The documents the schema accepts, and those it rejects
AcceptedDocs == {doc \in ImportDocs : WorkspaceDocumentIssues(doc) = {}}
RejectedDocs == ImportDocs \ AcceptedDocs

\* C1: converting the runtime state to a document and back yields the same
\* dashboard ids, the same widgets per dashboard (by id, type, layout, slot,
\* lookback, props) and the same viewports.
C1_RoundTrip ==
    WorkspaceView(mergeState(persistState(State), State).dashboards) = WorkspaceView(dashboards)

\* C2: the exported document always passes the document schema, and
\* importing it leaves dashboards, widgets and viewports as they were.
C2_BackupRestore ==
    LET result == safeParse(getWorkspaceDocument) IN
    /\ result.success
    /\ WorkspaceView(mergeState(result.data, State).dashboards) = WorkspaceView(dashboards)

\* C3: an import of a document that fails validation returns the
\* validation error (it does not throw) and leaves the whole store state
\* as it was.
C3_InvalidImportNoChange ==
    [][\A doc \in RejectedDocs :
         Import(doc) =>
            /\ ret'.kind = "ZodError"
            /\ ret'.issues # {}
            /\ UNCHANGED storeVars]_vars

C3_Witness ==
    /\ ret.kind = "ZodError"
    /\ dashboards # defaultState.dashboards
    /\ "version" \notin ret.issues

\* C4: an import of a document whose version is not VERSION returns a
\* validation error naming the version and changes nothing, in every
\* store state and whatever else the document holds.
C4_VersionGate ==
    [][\A doc \in {d \in ImportDocs : d.version # Some(1)} :
         Import(doc) =>
            /\ ret'.kind = "ZodError"
            /\ "version" \in ret'.issues
            /\ UNCHANGED storeVars]_vars

C4_Witness ==
    /\ ret.kind = "ZodError"
    /\ ret.issues = {"version"}
    /\ hasHydrated
    /\ Len(dashboards.custom) = 3

\* C5: importing a document with a widget whose type has no descriptor
\* returns no error; the resulting dashboards hold every widget of the
\* document that has a descriptor and not the others.
C5_UnknownTypeDropped ==
    [][\A doc \in {d \in ImportDocs : /\ HasUnknownType(d)
                                       /\ WorkspaceDocumentIssues(d) \subseteq {"widgets.type"}} :
         Import(doc) =>
            /\ ret'.kind = "undefined"
            /\ \A k \in 1..Len(DocDashboards(doc)) :
                 IsSome(DocDashboards(doc)[k]) =>
                   WidgetIds(AllDashboards(dashboards')[k]) =
                     {w.id : w \in {r \in Range(Get(DocDashboards(doc)[k]).widgets) :
                                      IsSome(WidgetRegistry(r.type))}}]_vars

\* The record that decides the widget stored under id: the last one of that
\* id among the records that have a descriptor
LastRecord(records, i) ==
    /\ IsSome(WidgetRegistry(records[i].type))
    /\ \A j \in (i + 1)..Len(records) :
         records[j].id = records[i].id => ~IsSome(WidgetRegistry(records[j].type))

\* What loading a document must produce: per dashboard record the viewport
\* of the record, and per deciding widget record a widget with the record's
\* fields and with the record's props when the descriptor's schema accepts
\* them, the descriptor's defaultValue when it rejects them.
LoadedFrom(doc, ds) ==
    \A k \in 1..Len(DocDashboards(doc)) :
       IsSome(DocDashboards(doc)[k]) =>
         LET rec == Get(DocDashboards(doc)[k])
             rt == AllDashboards(ds)[k]
         IN /\ rt.viewport = rec.viewport
            /\ \A i \in 1..Len(rec.widgets) :
                 LastRecord(rec.widgets, i) =>
                   LET r == rec.widgets[i]
                       parsed == propsSafeParse(r.type, r.props)
                   IN \E n \in 1..Len(rt.widgets) :
                        /\ persistWidget(rt.widgets[n]) =
                             [r EXCEPT !.props =
                                IF parsed.success THEN parsed.data
                                ELSE Some(Get(Get(WidgetRegistry(r.type)).props).defaultValue)]

\* C6: when an accepted document is imported, or a stored document is
\* hydrated, a widget whose props fail its descriptor's schema is kept with
\* the descriptor's defaultValue as props, no error is returned, and every
\* other widget and every viewport is loaded as the document gives it.
C6_DefaultSubstitution ==
    [][/\ \A doc \in AcceptedDocs :
            Import(doc) => (ret'.kind = "undefined" /\ LoadedFrom(doc, dashboards'))
       /\ \A stored \in {v \in StoredValues : IsSome(v) /\ Get(v).version = VERSION} :
            Hydrate(stored) => LoadedFrom(Get(stored).state, dashboards')]_vars

C6_Witness ==
    /\ ret.kind = "undefined"
    /\ steps = 1
    /\ \E i \in 1..Len(dashboards.auto.widgets) :
         /\ dashboards.auto.widgets[i].id = "w3"
         /\ dashboards.auto.widgets[i].props = Some("default")
    /\ \E i \in 1..Len(dashboards.auto.widgets) :
         /\ dashboards.auto.widgets[i].id = "w1"
         /\ dashboards.auto.widgets[i].props = Some("custom")

\* C7: the custom dashboard at list position i (from 0) is named
\* "Dashboard {i+1}" in every reachable state.
C7_PositionalNames ==
    \A i \in 1..Len(dashboards.custom) :
       dashboards.custom[i].name = "Dashboard " \o ToString(i)

\* The first of the three custom dashboards of DocThree has been removed.
C7_Witness ==
    /\ Len(dashboards.custom) = 2
    /\ dashboards.custom[1].id = "c2"
    /\ dashboards.custom[2].id = "c3"
    /\ dashboards.custom[1].name = "Dashboard 1"
    /\ dashboards.custom[2].name = "Dashboard 2"

Resolves(id) ==
    \/ id = dashboards.auto.id
    \/ id = dashboards.teleop.id
    \/ \E i \in 1..Len(dashboards.custom) : dashboards.custom[i].id = id

\* C8: selectDashboard(id) sets dashboardId to id when id is the id of the
\* auto, the teleop or a custom dashboard, and changes nothing of the store
\* state otherwise; in both cases nothing but dashboardId changes.
C8_SelectDashboard ==
    [][\A id \in DashboardIdInputs :
         SelectDashboard(id) =>
            /\ (Resolves(id) => dashboardId' = Some(id))
            /\ (~Resolves(id) => dashboardId' = dashboardId)
            /\ UNCHANGED <<hasHydrated, designMode, dashboards, slots>>]_vars

\* "auto" becomes the selected dashboard only through selectDashboard("auto")
C8_Witness ==
    /\ dashboardId = Some("auto")
    /\ Len(dashboards.custom) = 3

\* C9: whenever designMode is true, slots is null.
C9_DesignModeSuppressesSlots ==
    designMode => slots = None

\* C10: outside design mode, a call of updateWidgetSlot, addWidget,
\* removeWidget or removeDashboard that changes the set of bound slots
\* leaves slots equal to the set of slot values of all widgets.
C10_SlotsFresh ==
    [][(/\ \/ \E widgetId \in WidgetIdInputs, channelId \in SlotInputs, did \in OptDashboardIdInputs :
                UpdateWidgetSlot(widgetId, channelId, did)
           \/ \E descriptor \in DescriptorInputs, did \in OptDashboardIdInputs :
                AddWidget(descriptor, L1, did)
           \/ \E widgetId \in WidgetIdInputs, did \in OptDashboardIdInputs :
                RemoveWidget(widgetId, did)
           \/ \E id \in DashboardIdInputs : RemoveDashboard(id)
        /\ ~designMode
        /\ BoundSlots(dashboards') # BoundSlots(dashboards)) =>
          (IsSome(slots') /\ Range(Get(slots')) = BoundSlots(dashboards'))]_vars

\* The slots cache has been recomputed from the new dashboards: null in
\* design mode, otherwise each bound slot value exactly once.
SlotsRecomputed ==
    IF designMode'
    THEN slots' = None
    ELSE /\ IsSome(slots')
         /\ Range(Get(slots')) = BoundSlots(dashboards')
         /\ Len(Get(slots')) = Cardinality(BoundSlots(dashboards'))

\* C11: after a successful import or a hydration merge, slots is null when
\* designMode is true, and otherwise holds each slot value bound by a widget
\* kept in the auto, teleop or a custom dashboard exactly once and nothing
\* else; designMode is not changed by the merge.
C11_SlotsAfterMerge ==
    [][/\ \A doc \in AcceptedDocs :
            Import(doc) => (SlotsRecomputed /\ designMode' = designMode)
       /\ \A stored \in StoredValues :
            Hydrate(stored) => (SlotsRecomputed /\ designMode' = designMode)]_vars

\* Widgets bound to A, A and B, an unbound widget and a dropped widget bound
\* to C have been merged outside design mode.
C11_Witness ==
    /\ ~designMode
    /\ slots = Some(<<"nt:/A", "nt:/B">>)
    /\ Len(dashboards.auto.widgets) = 2
    /\ Len(dashboards.teleop.widgets) = 1
    /\ Len(dashboards.custom) = 1

\* C12: enterDesignMode sets designMode to true and slots to null;
\* exitDesignMode sets designMode to false and slots to the distinct slot
\* values bound by the widgets of all dashboards.
C12_EnterExitDesignMode ==
    [][/\ EnterDesignMode => (designMode' /\ slots' = None)
       /\ ExitDesignMode => (~designMode' /\ SlotsRecomputed)]_vars

\* C13: toggleDesignMode negates designMode, sets slots to null when the
\* new value is true and to the distinct slot values bound by the widgets
\* of all dashboards when it is false, and leaves dashboards, dashboardId
\* and hasHydrated as they were.
C13_ToggleDesignMode ==
    [][ToggleDesignMode =>
         /\ designMode' = ~designMode
         /\ SlotsRecomputed
         /\ UNCHANGED <<hasHydrated, dashboardId, dashboards>>]_vars

\* A widget bound to the FMS channel was added while slots was still null;
\* only a toggle back out of design mode puts that channel into slots.
C13_Witness ==
    /\ ~designMode
    /\ slots = Some(<<"nt:/FMSInfo/*">>)
    /\ Len(dashboards.auto.widgets) = 1

\* A dashboard with its name left out of the comparison, and a sequence
\* without its k-th element
Unnamed(d) == [d EXCEPT !.name = ""]
UnnamedSeq(s) == [i \in 1..Len(s) |-> Unnamed(s[i])]
RemoveAt(s, k) == SubSeq(s, 1, k - 1) \o SubSeq(s, k + 1, Len(s))
CustomIdSeq == [i \in 1..Len(dashboards.custom) |-> dashboards.custom[i].id]

\* C14: removeDashboard(id) with id in the custom list removes that
\* dashboard (the first of that id), keeps the other custom dashboards in
\* their order with their id, type, viewport and widgets, leaves auto and
\* teleop as they were and sets dashboardId to "teleop", whichever
\* dashboard was selected.
C14_RemoveDashboard ==
    [][\A id \in DashboardIdInputs :
         (findIndex(dashboards.custom, id) >= 0 /\ RemoveDashboard(id)) =>
            /\ UnnamedSeq(dashboards'.custom) =
                 UnnamedSeq(RemoveAt(dashboards.custom, findIndex(dashboards.custom, id) + 1))
            /\ dashboards'.auto = dashboards.auto
            /\ dashboards'.teleop = dashboards.teleop
            /\ dashboardId' = Some("teleop")]_vars

\* The last of three custom dashboards, which was not the selected one, has
\* been removed.
C14_Witness ==
    /\ CustomIdSeq = <<"c1", "c2">>
    /\ dashboardId = Some("teleop")

\* C15: removeDashboard(id) with id not in the custom list leaves the whole
\* store state, dashboardId included, as it was.
C15_RemoveMissingNoOp ==
    [][\A id \in DashboardIdInputs :
         (findIndex(dashboards.custom, id) < 0 /\ RemoveDashboard(id)) =>
            UNCHANGED storeVars]_vars

C17_MoveMissingNoOp ==
    [][\A id, targetId \in MoveIdInputs :
         (/\ \/ findIndex(dashboards.custom, id) < 0
             \/ findIndex(dashboards.custom, targetId) < 0
          /\ MoveDashboard(id, targetId)) =>
            UNCHANGED storeVars]_vars

\* C18: no call of a store operation ends with an exception.
C18_NoException ==
    ret.kind # "TypeError"

\* The dashboard a call addresses does not exist; the widget a call
\* addresses is not in the dashboard it addresses.
DashboardMissing(did) == getDashboard(dashboards, dashboardId, did).kind = "none"
WidgetMissing(widgetId, did) ==
    \/ DashboardMissing(did)
    \/ widgetId \notin WidgetIds(DashboardAt(dashboards, getDashboard(dashboards, dashboardId, did)))

\* C19: addWidget and updateViewport leave the store state as it was when
\* the dashboard they address does not exist; removeWidget, layoutWidget,
\* updateWidgetProps, updateWidgetLookback and updateWidgetSlot leave it as
\* it was when the dashboard does not exist or does not hold the widget,
\* also when another dashboard holds a widget of that id.
C19_MissingTargetNoOp ==
    [][/\ \A did \in OptDashboardIdInputs :
            DashboardMissing(did) =>
              /\ \A descriptor \in DescriptorInputs :
                   AddWidget(descriptor, L1, did) => UNCHANGED storeVars
              /\ \A viewport \in ViewportInputs :
                   UpdateViewport(viewport.x, viewport.y, viewport.scale, did) =>
                     UNCHANGED storeVars
       /\ \A widgetId \in WidgetIdInputs, did \in OptDashboardIdInputs :
            WidgetMissing(widgetId, did) =>
              /\ RemoveWidget(widgetId, did) => UNCHANGED storeVars
              /\ \A layout \in LayoutInputs :
                   LayoutWidget(widgetId, layout, did) => UNCHANGED storeVars
              /\ \A props \in PropsInputs :
                   UpdateWidgetProps(widgetId, props, did) => UNCHANGED storeVars
              /\ \A lookback \in LookbackInputs :
                   UpdateWidgetLookback(widgetId, lookback, did) => UNCHANGED storeVars
              /\ \A channelId \in SlotInputs :
                   UpdateWidgetSlot(widgetId, channelId, did) => UNCHANGED storeVars]_vars

\* A call has been made on the store that holds widgets w1..w4 in auto and
\* teleop and only w5 in the selected dashboard, and the store is as the
\* import left it.
C19_Witness ==
    /\ steps = 2
    /\ ret.kind = "undefined"
    /\ hydration = "pending"
    /\ State = mergeState(DocWidgets, defaultState)

\* C20: addDashboard appends one dashboard to the custom list, of type
\* custom, without widgets and viewport, named after its position, with an
\* id no dashboard had before; it selects that dashboard and leaves auto,
\* teleop and the custom dashboards that existed as they were.
C20_AddDashboard ==
    [][AddDashboard =>
         LET n == Len(dashboards.custom)
             new == dashboards'.custom[n + 1]
         IN /\ Len(dashboards'.custom) = n + 1
            /\ SubSeq(dashboards'.custom, 1, n) = dashboards.custom
            /\ dashboards'.auto = dashboards.auto
            /\ dashboards'.teleop = dashboards.teleop
            /\ new.type = "custom"
            /\ new.widgets = <<>>
            /\ new.viewport = None
            /\ new.name = "Dashboard " \o ToString(n + 1)
            /\ \A d \in Range(AllDashboards(dashboards)) : d.id # new.id
            /\ dashboardId' = Some(new.id)]_vars

\* A fourth custom dashboard has been added to three imported ones.
C20_Witness ==
    /\ Len(dashboards.custom) = 4
    /\ SubSeq(CustomIdSeq, 1, 3) = <<"c1", "c2", "c3">>
    /\ dashboards.custom[4].name = "Dashboard 4"
    /\ dashboards.custom[4].id \notin {"c1", "c2", "c3", "auto", "teleop"}
    /\ dashboardId = Some(dashboards.custom[4].id)

\* C21: selectDashboardByKey(index) with 0 <= index < custom.length makes
\* the custom dashboard at that position the one a call without dashboardId
\* argument resolves to, and changes nothing but dashboardId; with an index
\* outside that range it leaves the store state as it was.
C21_SelectDashboardByKey ==
    [][\A index \in IndexInputs :
         SelectDashboardByKey(index) =>
            IF index >= 0 /\ index < Len(dashboards.custom)
            THEN /\ IsSome(dashboardId')
                 /\ findIndex(AllDashboards(dashboards'), Get(dashboardId')) = index + 2
                 /\ UNCHANGED <<hasHydrated, designMode, dashboards, slots>>
            ELSE UNCHANGED storeVars]_vars

\* C22: addWidget on an existing dashboard appends one widget to it, under
\* an id no widget of that dashboard had, with the descriptor's type, the
\* given layout, the descriptor's constraints, slot.lookback,
\* props.defaultValue and slot.defaultChannel; the widgets the dashboard
\* held are as they were.
C22_AddWidget ==
    [][\A descriptor \in DescriptorInputs, did \in OptDashboardIdInputs :
         (~DashboardMissing(did) /\ AddWidget(descriptor, L1, did)) =>
            LET target == getDashboard(dashboards, dashboardId, did)
                old == DashboardAt(dashboards, target).widgets
                new == DashboardAt(dashboards', target).widgets
                added == new[Len(new)]
            IN /\ Len(new) = Len(old) + 1
               /\ SubSeq(new, 1, Len(old)) = old
               /\ added.id \notin {old[i].id : i \in 1..Len(old)}
               /\ persistWidget(added) =
                    [id |-> added.id, type |-> descriptor.type, layout |-> L1,
                     constraints |-> descriptor.constraints,
                     slot |-> IF IsSome(descriptor.slot)
                              THEN Get(descriptor.slot).defaultChannel ELSE None,
                     lookback |-> IF IsSome(descriptor.slot)
                                  THEN Get(descriptor.slot).lookback ELSE None,
                     props |-> IF IsSome(descriptor.props)
                               THEN Some(Get(descriptor.props).defaultValue) ELSE None]]_vars

\* An FMS widget has been added to the auto dashboard next to the two
\* widgets an import left there.
C22_Witness ==
    /\ Len(dashboards.auto.widgets) = 3
    /\ dashboards.auto.widgets[1].id = "w1"
    /\ dashboards.auto.widgets[2].id = "w3"
    /\ dashboards.auto.widgets[3].type = "fms"
    /\ dashboards.auto.widgets[3].slot = Some("nt:/FMSInfo/*")
    /\ dashboards.auto.widgets[3].props = Some("empty")
    /\ dashboards.auto.widgets[3].constraints = Some(Constraints(9, 7))

\* C23: hasHydrated is false initially, never goes from true to false, and
\* goes from false to true only in the step in which the persist middleware
\* merges the stored state (the default when nothing usable is stored).
C23_HydrationLifecycle ==
    /\ hasHydrated = FALSE
    /\ [][/\ hasHydrated => hasHydrated'
          /\ (~hasHydrated /\ hasHydrated') =>
                /\ hydration = "pending"
                /\ hydration' = "done"
                /\ \E stored \in StoredValues :
                     dashboards' =
                       mergeState(IF IsSome(stored) /\ Get(stored).version = VERSION
                                  THEN Get(stored).state ELSE NoDocument, State).dashboards]_vars

\* The store has been hydrated and three custom dashboards imported after
\* that.
C23_Witness ==
    /\ hasHydrated
    /\ hydration = "done"
    /\ CustomIdSeq = <<"c1", "c2", "c3">>
    /\ dashboardId = Some("c2")

\* C24: once rehydration has failed, hasHydrated eventually becomes true.
C24_FailedHydrationCompletes ==
    (hydration = "failed") ~> hasHydrated

\* C25: no call made while hasHydrated is false ends with an exception.
C25_PreHydrationNoThrow ==
    ~hasHydrated => ret.kind # "TypeError"

\* C26: in every reachable state the auto dashboard has id "auto", type
\* auto and name "Auto", and the teleop dashboard has id "teleop", type
\* teleop and name "Teleop".
C26_Singletons ==
    /\ dashboards.auto.id = "auto"
    /\ dashboards.auto.type = "auto"
    /\ dashboards.auto.name = "Auto"
    /\ dashboards.teleop.id = "teleop"
    /\ dashboards.teleop.type = "teleop"
    /\ dashboards.teleop.name = "Teleop"

\* A document whose auto record has another id, which has no teleop record
\* and which calls a custom dashboard "auto" has been imported.
C26_Witness ==
    /\ CustomIdSeq = <<"auto", "c1", "c1">>
    /\ Len(dashboards.auto.widgets) = 1
    /\ dashboards.teleop.widgets = <<>>

\* C27: a successful import returns nothing and leaves as dashboards the
\* conversion of the document alone, whatever the store held: an auto or
\* teleop record the document lacks becomes the empty auto or teleop
\* dashboard, a custom list it lacks becomes the empty list, and the custom
\* dashboards are those of the document, in its order.
C27_ImportReplaces ==
    [][\A doc \in AcceptedDocs :
         Import(doc) =>
            /\ ret'.kind = "undefined"
            /\ dashboards' = mergeState(doc, defaultState).dashboards
            /\ (~IsSome(doc.dashboards) \/ ~IsSome(Get(doc.dashboards).auto)) =>
                  dashboards'.auto = defaultState.dashboards.auto
            /\ (~IsSome(doc.dashboards) \/ ~IsSome(Get(doc.dashboards).teleop)) =>
                  dashboards'.teleop = defaultState.dashboards.teleop
            /\ IF IsSome(doc.dashboards) /\ IsSome(Get(doc.dashboards).custom)
               THEN [i \in 1..Len(dashboards'.custom) |-> dashboards'.custom[i].id] =
                    [i \in 1..Len(Get(Get(doc.dashboards).custom)) |->
                       Get(Get(doc.dashboards).custom)[i].id]
               ELSE dashboards'.custom = <<>>]_vars

\* A dashboard or a widget was added to the store before hydration and an
\* empty document imported after that: nothing of the addition is left.
C27_Witness ==
    /\ steps = 2
    /\ nextId = 2
    /\ hydration = "pending"
    /\ ret.kind = "undefined"
    /\ dashboards = defaultState.dashboards
    /\ slots = Some(<<>>)

\* C28: in every reachable state the ids of the auto, the teleop and the
\* custom dashboards are pairwise distinct.
C28_UniqueDashboardIds ==
    \A i, j \in 1..Len(AllDashboards(dashboards)) :
       i # j => AllDashboards(dashboards)[i].id # AllDashboards(dashboards)[j].id

\* The position in [auto, teleop, ...custom] of the dashboard a call
\* addresses: the first one whose id is the dashboardId argument, or the
\* selected id when the argument is not given; 0 when there is none.
AddressedPosition(did) ==
    LET id == IF IsSome(did) THEN did ELSE dashboardId IN
    IF IsSome(id) THEN findIndex(AllDashboards(dashboards), Get(id)) + 1 ELSE 0

OthersUnchanged(did) ==
    /\ Len(AllDashboards(dashboards')) = Len(AllDashboards(dashboards))
    /\ \A i \in 1..Len(AllDashboards(dashboards)) :
         i # AddressedPosition(did) =>
            AllDashboards(dashboards')[i] = AllDashboards(dashboards)[i]
    /\ UNCHANGED <<dashboardId, designMode, hasHydrated>>

\* Some widget or viewport operation is called with dashboardId argument did
WidgetOrViewportCall(did) ==
    \/ \E descriptor \in DescriptorInputs : AddWidget(descriptor, L1, did)
    \/ \E viewport \in ViewportInputs :
         UpdateViewport(viewport.x, viewport.y, viewport.scale, did)
    \/ \E widgetId \in WidgetIdInputs :
         \/ RemoveWidget(widgetId, did)
         \/ \E layout \in LayoutInputs : LayoutWidget(widgetId, layout, did)
         \/ \E props \in PropsInputs : UpdateWidgetProps(widgetId, props, did)
         \/ \E lookback \in LookbackInputs : UpdateWidgetLookback(widgetId, lookback, did)
         \/ \E channelId \in SlotInputs : UpdateWidgetSlot(widgetId, channelId, did)

\* C29: addWidget, removeWidget, layoutWidget, updateWidgetProps,
\* updateWidgetLookback, updateWidgetSlot and updateViewport change at most
\* the dashboard named by the dashboardId argument, or the selected one
\* when the argument is not given; every other dashboard, dashboardId,
\* designMode and hasHydrated are as they were.
C29_OneDashboard ==
    [][\A did \in OptDashboardIdInputs :
         OthersUnchanged(did) \/ ~WidgetOrViewportCall(did)]_vars

\* The viewport of the auto dashboard has been set while a custom dashboard
\* was selected.
C29_Witness ==
    /\ dashboards.auto.viewport = Some([x |-> 3, y |-> 4, scale |-> 1])
    /\ dashboardId = Some("c1")
    /\ CustomIdSeq = <<"c1">>
    /\ dashboards.custom[1].viewport = None
    /\ Len(dashboards.custom[1].widgets) = 1

\* The k-th widget of `new` is that of `old` with `field` set to `value`;
\* every other widget is the same.
FieldReplaced(old, new, k, field, value) ==
    /\ Len(new) = Len(old)
    /\ \A i \in 1..Len(old) : i # k => new[i] = old[i]
    /\ new[k][field] = value
    /\ \A f \in DOMAIN old[k] \ {field} : new[k][f] = old[k][f]

\* C30: on a widget the addressed dashboard holds, layoutWidget,
\* updateWidgetProps, updateWidgetLookback and updateWidgetSlot store the
\* given value, whatever it is, in the field layout, props, lookback or
\* slot and leave the other fields of the widget and every other widget as
\* they were; removeWidget takes that widget, and nothing else, out of the
\* dashboard.
C30_FieldUpdate ==
    [][\A widgetId \in WidgetIdInputs, did \in OptDashboardIdInputs :
         ~WidgetMissing(widgetId, did) =>
            LET target == getDashboard(dashboards, dashboardId, did)
                old == DashboardAt(dashboards, target)
                new == DashboardAt(dashboards', target)
                k == CHOOSE i \in 1..Len(old.widgets) : old.widgets[i].id = widgetId
            IN /\ \A layout \in LayoutInputs :
                    LayoutWidget(widgetId, layout, did) =>
                       /\ FieldReplaced(old.widgets, new.widgets, k, "layout", layout)
                       /\ [new EXCEPT !.widgets = old.widgets] = old
               /\ \A props \in PropsInputs :
                    UpdateWidgetProps(widgetId, props, did) =>
                       /\ FieldReplaced(old.widgets, new.widgets, k, "props", props)
                       /\ [new EXCEPT !.widgets = old.widgets] = old
               /\ \A lookback \in LookbackInputs :
                    UpdateWidgetLookback(widgetId, lookback, did) =>
                       /\ FieldReplaced(old.widgets, new.widgets, k, "lookback", Some(lookback))
                       /\ [new EXCEPT !.widgets = old.widgets] = old
               /\ \A channelId \in SlotInputs :
                    UpdateWidgetSlot(widgetId, channelId, did) =>
                       /\ FieldReplaced(old.widgets, new.widgets, k, "slot", channelId)
                       /\ [new EXCEPT !.widgets = old.widgets] = old
               /\ RemoveWidget(widgetId, did) =>
                    /\ new.widgets = RemoveAt(old.widgets, k)
                    /\ [new EXCEPT !.widgets = old.widgets] = old]_vars

\* A negative lookback has been stored in widget w1 of the auto dashboard;
\* its other fields and widget w3 are as imported.
C30_Witness ==
    /\ Len(dashboards.auto.widgets) = 2
    /\ dashboards.auto.widgets[1].id = "w1"
    /\ dashboards.auto.widgets[1].lookback = Some(-1)
    /\ dashboards.auto.widgets[1].props = Some("custom")
    /\ dashboards.auto.widgets[1].slot = Some("nt:/A")
    /\ dashboards.auto.widgets[1].layout = L1
    /\ dashboards.auto.widgets[2].id = "w3"

\* Dashboard id, widget id, type and constraints of every widget
WidgetIdentities(ds) ==
    UNION {{<<d.id, d.widgets[i].id, d.widgets[i].type, d.widgets[i].constraints>> :
              i \in 1..Len(d.widgets)} : d \in Range(AllDashboards(ds))}

\* Every widget that is in a dashboard before and after the step has the
\* type and the constraints it had.
IdentitiesKept ==
    \A t \in WidgetIdentities(dashboards') :
       (\E u \in WidgetIdentities(dashboards) : u[1] = t[1] /\ u[2] = t[2]) =>
          t \in WidgetIdentities(dashboards)

\* C31: outside import and hydration, no step changes the id, the type or
\* the constraints of a widget that exists before and after it.
C31_WidgetIdentityFixed ==
    [][\/ IdentitiesKept
       \/ \E document \in ImportDocs : Import(document)
       \/ \E stored \in StoredValues : Hydrate(stored)]_vars

\* The layout of imported widget w1 has been replaced, a second color
\* widget has been added next to it, and w1 has the constraints it came
\* with.
C31_Witness ==
    /\ Len(dashboards.auto.widgets) = 3
    /\ dashboards.auto.widgets[1].id = "w1"
    /\ dashboards.auto.widgets[1].layout = L2
    /\ dashboards.auto.widgets[1].type = "color"
    /\ dashboards.auto.widgets[1].constraints = Some(Constraints(4, 4))
    /\ dashboards.auto.widgets[3].type = "color"
    /\ dashboards.auto.widgets[3].constraints = Some(Constraints(4, 4))

\* The ids a call may pass or leave out
ResolutionInputs == {None} \cup {Some(id) : id \in DashboardIdInputs}

C33_UpdateViewport ==
    [][\A viewport \in ViewportInputs, did \in OptDashboardIdInputs :
         (AddressedPosition(did) > 0
          /\ UpdateViewport(viewport.x, viewport.y, viewport.scale, did)) =>
            LET old == AllDashboards(dashboards)[AddressedPosition(did)]
                new == AllDashboards(dashboards')[AddressedPosition(did)]
            IN /\ new.viewport = Some([x |-> viewport.x, y |-> viewport.y, scale |-> viewport.scale])
               /\ [new EXCEPT !.viewport = old.viewport] = old
               /\ OthersUnchanged(did)]_vars

\* The selected custom dashboard, imported without viewport, has got one;
\* its widget and the viewport of the auto dashboard are as imported.
C33_Witness ==
    /\ CustomIdSeq = <<"c1">>
    /\ dashboards.custom[1].viewport = Some([x |-> 3, y |-> 4, scale |-> 1])
    /\ Len(dashboards.custom[1].widgets) = 1
    /\ dashboards.auto.viewport = Some([x |-> 1, y |-> 2, scale |-> 2])

\* C34: in every reachable state a lookback that is set is >= 0 and the
\* scale of a viewport that is set is > 0.
C34_NumbersInRange ==
    \A d \in Range(AllDashboards(dashboards)) :
       /\ IsSome(d.viewport) => Get(d.viewport).scale > 0
       /\ \A i \in 1..Len(d.widgets) :
            IsSome(d.widgets[i].lookback) => Get(d.widgets[i].lookback) >= 0

\* C35: hydration from a stored value written under another version ends
\* with the default dashboards (empty auto and teleop, no custom
\* dashboard) and dashboardId "teleop".
C35_VersionMismatchDefaults ==
    [][\A stored \in {v \in StoredValues : IsSome(v) /\ Get(v).version # VERSION} :
         Hydrate(stored) =>
            /\ dashboards' = defaultState.dashboards
            /\ dashboardId' = Some("teleop")
            /\ hasHydrated']_vars

\* Hydration has ended with the default dashboards and teleop selected.
C35_Witness ==
    /\ steps = 1
    /\ hydration = "done"
    /\ hasHydrated
    /\ dashboards = defaultState.dashboards
    /\ dashboardId = Some("teleop")

\* C36: in every state reached after hydration, dashboardId is not null
\* and is the id of the auto, the teleop or a custom dashboard of the list.
C36_SelectionValid ==
    hasHydrated => (IsSome(dashboardId) /\ Resolves(Get(dashboardId)))

\* C37: a successful import leaves designMode and hasHydrated as they
\* were.
C37_ImportFrame ==
    [][\A doc \in AcceptedDocs :
         Import(doc) => UNCHANGED <<designMode, hasHydrated>>]_vars

\* The hydrated store is in design mode and holds three imported custom
\* dashboards.
C37_Witness ==
    /\ designMode
    /\ hasHydrated
    /\ slots = None
    /\ CustomIdSeq = <<"c1", "c2", "c3">>

\* C38: when hydration completes, dashboards and dashboardId are what the
\* stored document alone gives (the defaults when none is usable), whatever
\* was changed in the store before; designMode is as it was and slots is
\* null in design mode, recomputed otherwise.
C38_HydrationDiscardsEarlyMutations ==
    [][\A stored \in StoredValues :
         Hydrate(stored) =>
            LET record == IF IsSome(stored) /\ Get(stored).version = VERSION
                          THEN Get(stored).state ELSE NoDocument
            IN /\ dashboards' = mergeState(record, defaultState).dashboards
               /\ dashboardId' = mergeState(record, defaultState).dashboardId
               /\ designMode' = designMode
               /\ SlotsRecomputed]_vars

\* A dashboard or widget was added before hydration completed; the store
\* holds the stored document and nothing of the addition.
C38_Witness ==
    /\ steps = 2
    /\ nextId = 2
    /\ hydration = "done"
    /\ dashboards = mergeState(DocWidgets, defaultState).dashboards
    /\ dashboardId = Some("c1")

\* Each id that has a record with a descriptor in a dashboard record of the
\* document is the id of one widget of the dashboard, which has the layout,
\* slot and lookback of the last such record.
LaterRecordWins(doc, ds) ==
    \A k \in 1..Len(DocDashboards(doc)) :
       IsSome(DocDashboards(doc)[k]) =>
         LET records == Get(DocDashboards(doc)[k]).widgets
             widgets == AllDashboards(ds)[k].widgets
         IN \A i \in 1..Len(records) :
              LastRecord(records, i) =>
                /\ Cardinality({n \in 1..Len(widgets) : widgets[n].id = records[i].id}) = 1
                /\ \E n \in 1..Len(widgets) :
                     /\ widgets[n].id = records[i].id
                     /\ widgets[n].layout = records[i].layout
                     /\ widgets[n].slot = records[i].slot
                     /\ widgets[n].lookback = records[i].lookback

\* C39: in every reachable state no dashboard holds two widgets under one
\* id and every widget's descriptor is the registry's descriptor of the
\* widget's type; records of one id in an imported dashboard give one
\* widget, that of the last record.
C39_WidgetMapConsistent ==
    /\ [](\A d \in Range(AllDashboards(dashboards)) :
            /\ \A i, j \in 1..Len(d.widgets) :
                 i # j => d.widgets[i].id # d.widgets[j].id
            /\ \A i \in 1..Len(d.widgets) :
                 /\ IsSome(WidgetRegistry(d.widgets[i].type))
                 /\ d.widgets[i].descriptor = Get(WidgetRegistry(d.widgets[i].type)).type)
    /\ [][\A doc \in AcceptedDocs : Import(doc) => LaterRecordWins(doc, dashboards')]_vars

\* Two records "w1" of the auto record have become one widget, bound as the
\* second record says.
C39_Witness ==
    /\ Len(dashboards.auto.widgets) = 1
    /\ dashboards.auto.widgets[1].id = "w1"
    /\ dashboards.auto.widgets[1].slot = Some("nt:/B")
    /\ dashboards.auto.widgets[1].props = Some("custom")

====
